---- MODULE Spec2Model ----
(***************************************************************************)
(* A model of the Qt6 pretty printers of qt6printers/core.py.              *)
(*                                                                         *)
(* The inspected process is stopped: its memory (val) is chosen in Init    *)
(* and never changes.  The host asks a printer for its children and then   *)
(* calls __next__ on the returned iterator (specification Spec), or asks   *)
(* a value printer for its string (specification SpecValue).               *)
(***************************************************************************)
EXTENDS Integers, Sequences, FiniteSets, TLC

VARIABLES
    val,      \* the inspected value: type name and the memory behind it
    printer,  \* the printer class the host holds for val, and how it got it
    it,       \* the child iterator (QHashIterator, wrapped or not)
    out,      \* the (label, child) pairs the host has received
    phase,    \* "idle", "iterating", "stopped" (StopIteration), "raised"
    it2,      \* a second child iterator the host created on the same value
    out2,     \* the pairs the host has received from it2
    phase2,   \* as phase, for it2
    req,      \* the value printer asked for, with its input
    res       \* what that printer returned

vars == <<val, printer, it, out, phase, it2, out2, phase2, req, res>>

hashVars == <<val, printer, it, out, phase, it2, out2, phase2>>
secondVars == <<it2, out2, phase2>>
valueVars == <<req, res>>

----------------------------------------------------------------------------
(* Bounds of the model *)

\* spans of the largest table
MaxSpans == 2
\* live keys of the largest table
MaxLive == 2
\* chained values of one key of a QMultiHash
MaxChain == 2

----------------------------------------------------------------------------
(* Python and gdb.Value basics *)

\* None, a null pointer, gdb.Value(0)
None == 0
\* an attribute that was never assigned
Unset == -1

Digits == <<"0", "1", "2", "3", "4", "5", "6", "7", "8", "9">>

RECURSIVE NatStr(_)
NatStr(n) ==
    IF n < 10 THEN Digits[n + 1]
    ELSE NatStr(n \div 10) \o Digits[(n % 10) + 1]

\* str(n), "%d" % n
IntStr(n) ==
    IF n < 0 THEN "-" \o NatStr(-n) ELSE NatStr(n)

RECURSIVE ZeroPad(_, _)
ZeroPad(s, w) ==
    IF Len(s) >= w THEN s ELSE ZeroPad("0" \o s, w)

\* "%0wd" % n and f"{n:0w}": at least w characters, the sign first
PadStr(n, w) ==
    IF n < 0 THEN "-" \o ZeroPad(NatStr(-n), w - 1) ELSE ZeroPad(NatStr(n), w)

\* gdb.Value integer division and remainder are C's: truncated toward zero
Abs(n) ==
    IF n < 0 THEN -n ELSE n

CDiv(a, b) ==
    IF (a < 0) = (b < 0) THEN Abs(a) \div Abs(b) ELSE -(Abs(a) \div Abs(b))

CMod(a, b) ==
    a - b * CDiv(a, b)

----------------------------------------------------------------------------
(* The span table of QHashPrivate::Data, as the iterator reads it *)

SpanShift == 7
LocalBucketMask == 127
UnusedEntry == 255

SpanSize == LocalBucketMask + 1

\* the address of entries[offset].storage of span sp
NodeAddr(sp, offset) ==
    1 + sp * SpanSize + offset

NodeSpan(n) ==
    (n - 1) \div SpanSize

NodeOffset(n) ==
    (n - 1) % SpanSize

\* the bucket counts and the buckets a table of the model may use
BucketCounts ==
    {n \in 1..(MaxSpans * SpanSize) : n <= 3 \/ n % SpanSize <= 1}

Candidates(n) ==
    {b \in 0..(n - 1) : b % SpanSize \in {0, 1, LocalBucketMask}}

HashTypes == {"QHash", "QMultiHash", "QSet"}

KeyOf(b) == 500 + b
ValueOf(b) == 900 + b

\* the live buckets below b: b's rank in bucket order
Rank(live, b) ==
    Cardinality({c \in live : c < b})

\* b's offset into its span's entries: its rank among the span's live buckets
OffsetOf(live, b) ==
    Cardinality({c \in live : c < b /\ c \div SpanSize = b \div SpanSize})

\* the address of the p-th Chain cell of live bucket b
CellAddr(live, b, p) ==
    Rank(live, b) * (MaxChain + 1) + p

\* QHashPrivate::Data with numBuckets n, live buckets live, and, for a
\* QMultiHash, lens[b] chained values under the key of bucket b.  A span's
\* offsets are kept for its used slots only: every other slot of the 128
\* holds UnusedEntry (see Slot)
Table(type, n, live, lens, bad) ==
    LET nSpans == (n + SpanSize - 1) \div SpanSize
        InSpan(sp) == {b \in live : b \div SpanSize = sp}
        nodeOf(b) ==
            [key |-> KeyOf(b),
             value |-> IF type = "QMultiHash"
                       THEN (IF lens[b] = 0 THEN None ELSE CellAddr(live, b, 1))
                       ELSE ValueOf(b)]
        cellsOf(b) == {CellAddr(live, b, p) : p \in 1..lens[b]}
    IN  [type |-> type,
         d |-> 1,
         numBuckets |-> n,
         size |-> Cardinality(live),
         m_size |-> IF type = "QMultiHash" THEN
                        LET RECURSIVE Sum(_)
                            Sum(S) == IF S = {} THEN 0
                                      ELSE LET b == CHOOSE c \in S : TRUE
                                           IN lens[b] + Sum(S \ {b})
                        IN Sum(live)
                    ELSE Unset,
         spans |-> [sp \in 0..(nSpans - 1) |->
                      [offsets |-> [i \in {b % SpanSize : b \in InSpan(sp)} |->
                                      OffsetOf(live, sp * SpanSize + i)],
                       entries |-> [o \in 0..(Cardinality(InSpan(sp)) - 1) |->
                                      nodeOf(CHOOSE b \in InSpan(sp) :
                                                OffsetOf(live, b) = o)]]],
         cells |-> IF type = "QMultiHash" THEN
                       [a \in UNION {cellsOf(b) : b \in live} |->
                          LET b == CHOOSE c \in live : a \in cellsOf(c)
                              p == a - CellAddr(live, b, 0)
                          IN [value |-> ValueOf(b) + 10 * p,
                              next |-> IF p < lens[b] THEN a + 1 ELSE None]]
                   ELSE <<>>,
         unreadable |-> bad]

\* a value whose d pointer is null
NullTable(type) ==
    [type |-> type, d |-> None, numBuckets |-> 0, size |-> 0,
     m_size |-> IF type = "QMultiHash" THEN 0 ELSE Unset,
     spans |-> <<>>, cells |-> <<>>, unreadable |-> {}]

Tables ==
    {NullTable(t) : t \in HashTypes}
    \cup UNION {UNION {UNION {
           {Table(t, n, live, lens, bad) :
                lens \in [live -> IF t = "QMultiHash" THEN {1, MaxChain} ELSE {1}],
                bad \in {{}} \cup {{sp} : sp \in 0..((n - 1) \div SpanSize)}} :
           live \in {L \in SUBSET Candidates(n) : Cardinality(L) <= MaxLive}} :
           n \in BucketCounts} :
           t \in HashTypes}

----------------------------------------------------------------------------
(* build_pretty_printer: the catalogue, in registration order *)

Catalogue ==
    <<[pattern |-> "QHash", cls |-> "QHashPrinter"],
      [pattern |-> "QMultiHash", cls |-> "QHashPrinter"],
      [pattern |-> "QSet", cls |-> "QSetPrinter"]>>

\* the printer of the first entry whose pattern matches the type name
Resolve(type) ==
    LET hits == {i \in DOMAIN Catalogue : Catalogue[i].pattern = type}
    IN  IF hits = {} THEN "NotFound"
        ELSE Catalogue[CHOOSE i \in hits : \A j \in hits : i <= j].cls

\* the printer classes that can be constructed on a value of a type: the one
\* the catalogue selects, and class QMultiHash constructed directly
PrintersFor(type) ==
    {[cls |-> Resolve(type), via |-> "catalogue"]}
    \cup (IF type = "QMultiHash"
          THEN {[cls |-> "QMultiHash", via |-> "direct"]} ELSE {})

----------------------------------------------------------------------------
(* QHashPrinter.QHashIterator *)

NoIterator ==
    [cls |-> "none", d_ptr |-> None, bucket |-> 0, count |-> 0,
     isMulti |-> FALSE, currentNode |-> Unset, chain |-> Unset,
     index |-> 0, err |-> ""]

Raise(s, e) ==
    [s EXCEPT !.err = e]

span(s) ==
    s.bucket \div (2 ^ SpanShift)

index(s) ==
    s.bucket % (LocalBucketMask + 1)

\* spans[sp].offsets[i] as gdb reads it
Slot(v, sp, i) ==
    IF i \in DOMAIN v.spans[sp].offsets THEN v.spans[sp].offsets[i]
    ELSE UnusedEntry

\* whether gdb can read span sp of the table
SpanReadable(v, sp) ==
    sp \in DOMAIN v.spans /\ sp \notin v.unreadable

\* an isUnused that looks at the slot after the cursor's
isUnused_nextSlot(v, s) ==
    Slot(v, span(s), index(s) + 1) = UnusedEntry

isUnused(v, s) ==
    Slot(v, span(s), index(s)) = UnusedEntry

\* the node pointer, or None with "Offset points to an unused entry."
computeCurrentNode(v, s) ==
    LET offset == Slot(v, span(s), index(s))
    IN  IF offset = UnusedEntry THEN None
        ELSE NodeAddr(span(s), offset)

\* *node, read through the host
Deref(v, n) ==
    v.spans[NodeSpan(n)].entries[NodeOffset(n)]

updateCurrentNode(v, s) ==
    IF ~SpanReadable(v, span(s)) THEN Raise(s, "MemoryError")
    ELSE LET s1 == [s EXCEPT !.currentNode = computeCurrentNode(v, s)]
         IN  IF ~s.isMulti THEN s1
             ELSE IF s1.currentNode = None THEN Raise(s1, "AssertionError")
             ELSE [s1 EXCEPT !.chain = Deref(v, s1.currentNode).value]

\* the bucket at which the loop of nextNode leaves: the first b after the
\* current bucket that equals numBuckets, or cannot be read, or is used
\* (Unset: the walk has passed numBuckets and never meets it)
nextStop(v, s) ==
    LET at(b) == [s EXCEPT !.bucket = b]
        stops == {b \in (s.bucket + 1)..v.numBuckets :
                    \/ b = v.numBuckets
                    \/ ~SpanReadable(v, span(at(b)))
                    \/ ~isUnused(v, at(b))}
    IN  IF stops = {} THEN Unset
        ELSE CHOOSE b \in stops : \A c \in stops : b <= c

\* a nextNode that, on reaching numBuckets, starts again at bucket 0 when
\* that bucket is used, and keeps the root
nextNode_wrapsAround(v, s) ==
    LET b == nextStop(v, s)
        s1 == [s EXCEPT !.bucket = b]
        s0 == [s EXCEPT !.bucket = 0]
    IN  IF b = Unset THEN Raise(s, "MemoryError")
        ELSE IF s1.bucket = v.numBuckets
        THEN IF SpanReadable(v, 0) /\ ~isUnused(v, s0)
             THEN updateCurrentNode(v, s0)
             ELSE [s1 EXCEPT !.d_ptr = None, !.bucket = 0]
        ELSE IF ~SpanReadable(v, span(s1)) THEN Raise(s1, "MemoryError")
        ELSE updateCurrentNode(v, s1)

nextNode(v, s) ==
    LET b == nextStop(v, s)
        s1 == [s EXCEPT !.bucket = b]
    IN  IF b = Unset THEN Raise(s, "MemoryError")
        ELSE IF s1.bucket = v.numBuckets
        THEN [s1 EXCEPT !.d_ptr = None, !.bucket = 0]
        ELSE IF ~SpanReadable(v, span(s1)) THEN Raise(s1, "MemoryError")
        ELSE updateCurrentNode(v, s1)

\* a firstNode that always advances: bucket 0 is never looked at
firstNode_skipsBucket0(v, s) ==
    nextNode(v, [s EXCEPT !.bucket = 0])

firstNode(v, s) ==
    LET s1 == [s EXCEPT !.bucket = 0]
    IN  IF ~SpanReadable(v, span(s1)) THEN Raise(s1, "MemoryError")
        ELSE IF isUnused(v, s1) THEN nextNode(v, s1)
        ELSE updateCurrentNode(v, s1)

\* QHashIterator.__init__
QHashIterator(v, isMultiMap) ==
    firstNode(v, [NoIterator EXCEPT !.cls = "QHashIterator", !.d_ptr = v.d,
                                   !.isMulti = isMultiMap])

Label(i) ==
    "[" \o IntStr(i) \o "]"

\* a __next__ that goes to the next bucket after every child, in multi mode too
HashNext_dropsChain(v, s) ==
    IF s.d_ptr = None THEN [s |-> s, stop |-> TRUE, item |-> <<>>]
    ELSE
      LET s1 == [s EXCEPT !.count = s.count + 1]
          item == IF ~s.isMulti THEN s.currentNode ELSE s.chain
          s2 == IF s.isMulti /\ item \notin DOMAIN v.cells
                THEN Raise(s1, "MemoryError")
                ELSE nextNode(v, s1)
      IN  [s |-> s2, stop |-> FALSE,
           item |-> IF s2.err # "" THEN <<>>
                    ELSE <<Label(s.count),
                           IF s.isMulti THEN v.cells[item] ELSE Deref(v, item)>>]

\* QHashIterator.__next__: [s |-> the iterator after the call,
\* stop |-> StopIteration was raised, item |-> the (label, child) returned]
HashNext(v, s) ==
    IF s.d_ptr = None THEN [s |-> s, stop |-> TRUE, item |-> <<>>]
    ELSE
      LET s1 == [s EXCEPT !.count = s.count + 1]
          item == IF ~s.isMulti THEN s.currentNode ELSE s.chain
          s2 == IF ~s.isMulti THEN nextNode(v, s1)
                ELSE IF item \notin DOMAIN v.cells THEN Raise(s1, "MemoryError")
                ELSE LET s3 == [s1 EXCEPT !.chain = v.cells[item].next]
                     IN  IF s3.chain = None THEN nextNode(v, s3) ELSE s3
          s4 == IF s2.err = "" /\ item = None THEN Raise(s2, "AssertionError")
                ELSE s2
      IN  [s |-> s4, stop |-> FALSE,
           item |-> IF s4.err # "" THEN <<>>
                    ELSE <<Label(s.count),
                           IF s.isMulti THEN v.cells[item] ELSE Deref(v, item)>>]

\* a QSetIterator.__next__ that reads the key after advancing
SetNext_readsAfterAdvance(v, s) ==
    IF s.d_ptr = None THEN [s |-> s, stop |-> TRUE, item |-> <<>>]
    ELSE
      LET s1 == nextNode(v, s)
          item == Deref(v, s1.currentNode).key
          s2 == IF s1.err # "" THEN s1 ELSE [s1 EXCEPT !.index = s.index + 1]
      IN  [s |-> s2, stop |-> FALSE,
           item |-> IF s2.err # "" THEN <<>> ELSE <<Label(s.index), item>>]

\* QSetIterator.__next__ over the wrapped hash iterator
SetNext(v, s) ==
    IF s.d_ptr = None THEN [s |-> s, stop |-> TRUE, item |-> <<>>]
    ELSE
      LET item == Deref(v, s.currentNode).key
          s1 == nextNode(v, s)
          s2 == IF s1.err # "" THEN s1 ELSE [s1 EXCEPT !.index = s.index + 1]
      IN  [s |-> s2, stop |-> FALSE,
           item |-> IF s2.err # "" THEN <<>> ELSE <<Label(s.index), item>>]

----------------------------------------------------------------------------
(* The printers' children(), num_children() and to_string() *)

\* has_field(self.val, 'm_size')
has_m_size(v) ==
    v.type = "QMultiHash"

\* QHashPrinter.num_children (inherited by QMultiHash)
QHashPrinter_num_children(v) ==
    IF has_m_size(v) THEN v.m_size
    ELSE IF v.d # None THEN v.size ELSE 0

QSetPrinter_num_children(v) ==
    IF v.d # None THEN v.size ELSE 0

num_children(p, v) ==
    IF p.cls = "QSetPrinter" THEN QSetPrinter_num_children(v)
    ELSE QHashPrinter_num_children(v)

\* the template arguments are not modelled: "<...>" stands for them
to_string(p, v) ==
    (CASE p.cls = "QHashPrinter" -> "QHash"
       [] p.cls = "QMultiHash" -> "QMultiHash"
       [] OTHER -> "QSet")
    \o "<...> with size = " \o IntStr(num_children(p, v))

\* children(): the iterator handed to the host ([] is cls "list")
children(p, v) ==
    IF v.d = None THEN [NoIterator EXCEPT !.cls = "list"]
    ELSE CASE p.cls = "QHashPrinter" -> QHashIterator(v, FALSE)
           [] p.cls = "QMultiHash" -> QHashIterator(v, TRUE)
           [] OTHER -> [QHashIterator(v, FALSE) EXCEPT !.cls = "QSetIterator"]

next(v, s) ==
    CASE s.cls = "list" -> [s |-> s, stop |-> TRUE, item |-> <<>>]
      [] s.cls = "QSetIterator" -> SetNext(v, s)
      [] OTHER -> HashNext(v, s)

----------------------------------------------------------------------------
(* The host's calls on a container printer *)

NoRequest == [kind |-> "none"]
NoResult == [kind |-> "none"]

InitHash ==
    /\ val \in Tables
    /\ printer \in PrintersFor(val.type)
    /\ it = NoIterator
    /\ out = <<>>
    /\ phase = "idle"
    /\ it2 = NoIterator
    /\ out2 = <<>>
    /\ phase2 = "idle"
    /\ req = NoRequest
    /\ res = NoResult

\* the host asks for the children: the iterator is constructed
Children ==
    /\ phase = "idle"
    /\ it' = children(printer, val)
    /\ phase' = IF it'.err # "" THEN "raised" ELSE "iterating"
    /\ UNCHANGED <<val, printer, out, secondVars, req, res>>

\* the host calls __next__, also after StopIteration
NextChild ==
    /\ phase \in {"iterating", "stopped"}
    /\ LET r == next(val, it)
       IN  /\ it' = r.s
           /\ phase' = IF r.stop THEN "stopped"
                       ELSE IF r.s.err # "" THEN "raised" ELSE "iterating"
           /\ out' = IF r.stop \/ r.s.err # "" THEN out ELSE Append(out, r.item)
    /\ UNCHANGED <<val, printer, secondVars, req, res>>

Next ==
    \/ Children
    \/ NextChild

Spec == InitHash /\ [][Next]_vars

----------------------------------------------------------------------------
(* What the table holds, read off the memory and not through the iterator *)

Readable(v) ==
    v.d # None /\ v.unreadable = {}

UsedBuckets(v) ==
    {b \in 0..(v.numBuckets - 1) :
        b % SpanSize \in DOMAIN v.spans[b \div SpanSize].offsets}

\* the i-th used bucket in increasing bucket order, i = 1..
NthUsed(v, i) ==
    CHOOSE b \in UsedBuckets(v) :
        Cardinality({c \in UsedBuckets(v) : c < b}) = i - 1

NodeAt(v, b) ==
    v.spans[b \div SpanSize].entries[v.spans[b \div SpanSize].offsets[b % SpanSize]]

\* the children QHashIterator(v, FALSE) yields until StopIteration or a failure
RECURSIVE Drain(_, _)
Drain(v, s) ==
    LET r == HashNext(v, s)
    IN  IF r.stop \/ r.s.err # "" THEN <<>>
        ELSE <<r.item>> \o Drain(v, r.s)

HashRun(v) ==
    Drain(v, QHashIterator(v, FALSE))

----------------------------------------------------------------------------
(* C1..C5: the hash, multi-hash and set iterators *)

C2_MultiHashAllValues ==
    (val.type = "QMultiHash" /\ printer.via = "catalogue" /\ Readable(val)
     /\ phase = "stopped") =>
        /\ Len(out) = val.m_size
        /\ Len(out) = num_children(printer, val)

\* C3: over a readable QSet, the set iterator yields the keys of the nodes
\* the single-value hash iterator yields over the same table, in the same
\* order, labelled [0], [1], ..., and all of them once StopIteration is raised.
C3_SetYieldsHashKeys ==
    (val.type = "QSet" /\ Readable(val) /\ it.cls = "QSetIterator") =>
        /\ phase # "raised"
        /\ Len(out) <= Len(HashRun(val))
        /\ \A i \in 1..Len(out) :
              out[i] = <<Label(i - 1), HashRun(val)[i][2].key>>
        /\ phase = "stopped" =>
              /\ Len(out) = Len(HashRun(val))
              /\ Len(out) = Cardinality(UsedBuckets(val))

C3_Witness ==
    /\ val.type = "QSet" /\ Readable(val) /\ it.cls = "QSetIterator"
    /\ phase = "stopped"
    /\ Len(out) = 2
    /\ UsedBuckets(val) = {1, SpanSize}

\* C5: no failure leaves __next__ of the hash iterator: a memory read that
\* fails there ends the child sequence instead.
C5_NoFailureLeavesNext ==
    (it.cls = "QHashIterator" /\ it.count > 0) => phase # "raised"

----------------------------------------------------------------------------
(* The value printers: QDate, QTime, timeZoneId *)

Str(text) ==
    [kind |-> "str", text |-> text, path |-> ""]

\* a string returned on the code path named path
StrVia(text, path) ==
    [kind |-> "str", text |-> text, path |-> path]

\* an exception that leaves the printer
Raised(exc) ==
    [kind |-> "raised", text |-> exc, path |-> ""]

GregorianStart == 2299161

\* a threshold test that sends the first Gregorian day to the Julian branch
IsGregorian_exclusive(julianDay) ==
    julianDay > GregorianStart

IsGregorian(julianDay) ==
    julianDay >= GregorianStart

\* Fliegel and Van Flandern: <<y, m, d>>
GregorianYMD(julianDay) ==
    LET ell1 == julianDay + 68569
        n == CDiv(4 * ell1, 146097)
        ell2 == ell1 - CDiv(146097 * n + 3, 4)
        i == CDiv(4000 * (ell2 + 1), 1461001)
        ell3 == ell2 - CDiv(1461 * i, 4) + 31
        j == CDiv(80 * ell3, 2447)
        d == ell3 - CDiv(2447 * j, 80)
        ell4 == CDiv(j, 11)
        m == j + 2 - (12 * ell4)
        y == 100 * (n - 49) + i + ell4
    IN  <<y, m, d>>

\* Toendering: <<y, m, d>>, with no year 0
JulianYMD(julianDay0) ==
    LET julianDay == julianDay0 + 32082
        dd == CDiv(4 * julianDay + 3, 1461)
        ee == julianDay - CDiv(1461 * dd, 4)
        mm == CDiv((5 * ee) + 2, 153)
        d == ee - CDiv(153 * mm + 2, 5) + 1
        m == mm + 3 - 12 * CDiv(mm, 10)
        y0 == dd - 4800 + CDiv(mm, 10)
        y == IF y0 <= 0 THEN y0 - 1 ELSE y0
    IN  <<y, m, d>>

\* "%d-%02d-%02d" % (y, m, d)
FormatYMD(ymd) ==
    IntStr(ymd[1]) \o "-" \o PadStr(ymd[2], 2) \o "-" \o PadStr(ymd[3], 2)

QDatePrinter_to_string(julianDay) ==
    IF julianDay = 0 THEN StrVia("invalid QDate", "invalid")
    ELSE IF IsGregorian(julianDay)
    THEN StrVia(FormatYMD(GregorianYMD(julianDay)), "gregorian")
    ELSE StrVia(FormatYMD(JulianYMD(julianDay)), "julian")

MsPerDay == 86400000

MSECS_PER_HOUR == 3600000
SECS_PER_MIN == 60
MSECS_PER_MIN == 60000

\* a second that is taken from the milliseconds left in the minute
Second_ofMinuteMsecs(ds) ==
    CMod(CMod(ds, MSECS_PER_MIN), SECS_PER_MIN)

Second(ds) ==
    CMod(CDiv(ds, 1000), SECS_PER_MIN)

QTimePrinter_to_string(ds) ==
    IF ds = -1 THEN StrVia("invalid QTime", "invalid")
    ELSE LET hour == CDiv(ds, MSECS_PER_HOUR)
             minute == CDiv(CMod(ds, MSECS_PER_HOUR), MSECS_PER_MIN)
             second == Second(ds)
             msec == CMod(ds, 1000)
         IN  Str(PadStr(hour, 2) \o ":" \o PadStr(minute, 2) \o ":"
                 \o PadStr(second, 2) \o "." \o PadStr(msec, 3))

\* enum Qt::TimeSpec
LocalTime == 0
UTC == 1
OffsetFromUTC == 2
TimeZone == 3

INVALID == "<invalid>"

\* a sign test that makes offset 0 negative
OffsetSign_zeroNegative(offsetFromUtc) ==
    IF offsetFromUtc <= 0 THEN "-" ELSE "+"

OffsetSign(offsetFromUtc) ==
    IF offsetFromUtc < 0 THEN "-" ELSE "+"

\* a timeZoneId that takes every spec it does not know for local time
timeZoneId_unknownAsLocal(spec, offsetFromUtc) ==
    IF spec = UTC THEN "UTC"
    ELSE IF spec = OffsetFromUTC THEN
        "UTC" \o OffsetSign(offsetFromUtc)
        \o PadStr(Abs(offsetFromUtc) \div 3600, 2) \o ":"
        \o PadStr((Abs(offsetFromUtc) % 3600) \div 60, 2)
    ELSE IF spec = TimeZone THEN INVALID
    ELSE "Local"

\* Python's //: floor division, here of non-negative numbers
timeZoneId(spec, offsetFromUtc) ==
    IF spec = LocalTime THEN "Local"
    ELSE IF spec = UTC THEN "UTC"
    ELSE IF spec = OffsetFromUTC THEN
        LET hours == Abs(offsetFromUtc) \div 3600
            minutes == (Abs(offsetFromUtc) % 3600) \div 60
        IN  "UTC" \o OffsetSign(offsetFromUtc) \o PadStr(hours, 2) \o ":"
            \o PadStr(minutes, 2)
    ELSE IF spec = TimeZone THEN INVALID
    ELSE "<error: unhandled time spec " \o IntStr(spec) \o ">"

----------------------------------------------------------------------------
(* Memory behind a pointer: mem maps each readable address to the object  *)
(* there; gdb raises gdb.MemoryError on a read at any other address, the   *)
(* null page included                                                      *)

CanRead(mem, addr) ==
    addr \in DOMAIN mem

\* 'a'..'z', '0'..'9' and the URL punctuation; any other unit as U+FFFD's "?"
Chr(c) ==
    CASE c \in 48..57 -> SubSeq("0123456789", c - 47, c - 47)
      [] c \in 97..122 -> SubSeq("abcdefghijklmnopqrstuvwxyz", c - 96, c - 96)
      [] c = 35 -> "#"
      [] c = 42 -> "*"
      [] c = 45 -> "-"
      [] c = 46 -> "."
      [] c = 47 -> "/"
      [] c = 58 -> ":"
      [] c = 61 -> "="
      [] c = 63 -> "?"
      [] c = 64 -> "@"
      [] OTHER -> "?"

\* bytes.decode of a run of code units (UTF-16) or bytes (UTF-8, ASCII only)
RECURSIVE Decode(_)
Decode(units) ==
    IF units = <<>> THEN ""
    ELSE Chr(Head(units)) \o Decode(Tail(units))

\* QStringPrinter.to_string of [size, ptr, units]: any failure gives ''
QStringPrinter_to_string(q) ==
    IF q.size = 0 THEN ""
    ELSE IF q.ptr # "ok" THEN ""
    ELSE Decode(SubSeq(q.units, 1, q.size))

\* QByteArrayPrinter(...).to_string() of [size, ptr, units]: a failed read
\* fails again under latin1 and leaves the printer
QByteArrayPrinter_to_string(b) ==
    IF b.ptr # "ok" THEN Raised("MemoryError")
    ELSE Str(Decode(SubSeq(b.units, 1, b.size)))

----------------------------------------------------------------------------
(* QTimeZonePrinter and QDateTimePrinter *)

\* QTimeZone::Data is one word: a QTimeZonePrivate pointer, or ShortData
\* with mode in the low two bits and the offset above them
ShortZone(mode, offset) ==
    offset * 4 + mode

QTimeZonePrinter_to_string(d, mem) ==
    LET isShort == d % 4
    IN  IF isShort # 0 THEN
            LET mode == d % 4
                spec == (mode + 3) % 4
                offsetFromUtc == d \div 4
            IN  StrVia(timeZoneId(spec, offsetFromUtc), "short")
        ELSE IF d = 0 THEN StrVia(INVALID, "null")
        ELSE IF ~CanRead(mem, d) THEN Raised("MemoryError")
        ELSE LET tzId == QByteArrayPrinter_to_string(mem[d].m_id)
             IN  IF tzId.kind = "raised" THEN tzId
                 ELSE StrVia(IF tzId.text # "" THEN tzId.text ELSE INVALID,
                             "long")

TimeSpecShift == 4
TimeSpecMask == 48

\* _status & TimeSpecMask, for a status of one byte or more
extractTimeSpec(status) ==
    ((status % 64) - (status % 16)) \div (2 ^ TimeSpecShift)

\* QDateTime::Data is one word, read three ways: as the pointer d, as
\* data.status (its low byte, bit 0 set in the short form) and as data.msecs
\* (the bits above).  A count of milliseconds is held as <<days, ms>>, for
\* days * 86400000 + ms with ms in 0..86399999: it does not fit TLC's integers
ShortDateTime(status, msecs) ==
    [d |-> Unset, status |-> status, msecs |-> msecs]

LongDateTime(addr) ==
    [d |-> addr, status |-> addr % 256, msecs |-> <<0, addr \div 256>>]

\* what datetime.utcfromtimestamp accepts: 0001-01-01 .. 9999-12-31, in days
MinTimestampDay == -719162
MaxTimestampDay == 2932896

\* 1970-01-01 as a Julian day
EpochJulianDay == 2440588

\* utcfromtimestamp(msecs / 1000.0).strftime('%Y-%m-%d %H:%M:%S.%f')[:-3]
\* (exact while the float keeps the microsecond, which holds for the model's
\* inputs; the year is printed as glibc does, unpadded)
UtcText(msecs) ==
    LET days == msecs[1]
        ms == msecs[2]
        ymd == GregorianYMD(days + EpochJulianDay)
    IN  IntStr(ymd[1]) \o "-" \o PadStr(ymd[2], 2) \o "-" \o PadStr(ymd[3], 2)
        \o " " \o PadStr(ms \div 3600000, 2)
        \o ":" \o PadStr((ms \div 60000) % 60, 2)
        \o ":" \o PadStr((ms \div 1000) % 60, 2)
        \o "." \o PadStr(ms % 1000, 3)

QDateTimePrinter_to_string(cell, mem) ==
    LET isShort == cell.status % 2
        finish(msecs, timeZone) ==
            IF timeZone.kind = "raised" THEN timeZone
            ELSE IF msecs[1] < MinTimestampDay \/ msecs[1] > MaxTimestampDay
            THEN Raised("ValueError")
            ELSE StrVia(UtcText(msecs) \o " " \o timeZone.text, timeZone.path)
    IN  IF isShort # 0 THEN
            LET spec == extractTimeSpec(cell.status)
            IN  finish(cell.msecs, StrVia(timeZoneId(spec, 0), "short"))
        ELSE IF ~CanRead(mem, cell.d) THEN Raised("MemoryError")
        ELSE LET p == mem[cell.d]
                 spec == extractTimeSpec(p.m_status)
             IN  IF spec = TimeZone
                 THEN LET tz == QTimeZonePrinter_to_string(p.m_timeZone, mem)
                      IN  finish(p.m_msecs,
                                 IF tz.kind = "raised" THEN tz
                                 ELSE StrVia(tz.text, "long-zone"))
                 ELSE finish(p.m_msecs,
                             StrVia(timeZoneId(spec, p.m_offsetFromUtc), "long"))

----------------------------------------------------------------------------
(* QVariantPrinter *)

HexDigits == "0123456789abcdef"

RECURSIVE HexNat(_)
HexNat(n) ==
    IF n < 16 THEN SubSeq(HexDigits, n + 1, n + 1)
    ELSE HexNat(n \div 16) \o SubSeq(HexDigits, (n % 16) + 1, (n % 16) + 1)

\* hex(n), and gdb's str of a pointer
Hex(n) ==
    "0x" \o HexNat(n)

EndsWith(t, c) ==
    Len(t) > 0 /\ SubSeq(t, Len(t), Len(t)) = c

\* the type names gdb.lookup_type resolves; for any other it raises
KnownTypes == {"int", "bool"}

\* gdb's str of the payload read as a value of a known type
GdbValueStr(type, word) ==
    IF type = "bool" THEN (IF word % 256 # 0 THEN "true" ELSE "false")
    ELSE IntStr(word)

\* gdb's str of the payload as the array of bytes it is
GdbBytesStr(word) ==
    "{" \o IntStr(word % 256) \o ", " \o IntStr((word \div 256) % 256)
    \o ", ...}"

\* the name of the QMetaTypeInterface at packedType << 2, '' when the
\* interface or the name cannot be read or the name pointer is null
VariantTypeStr(v) ==
    IF ~v.iface.readable THEN ""
    ELSE IF v.iface.name.ptr = "null" THEN ""
    ELSE QStringPrinter_to_string(v.iface.name)

\* a value_str that looks at the type name before is_shared
VariantValueStr_pointerFirst(v, type_str) ==
    IF EndsWith(type_str, "*") THEN Hex(v.data)
    ELSE IF v.is_shared THEN "PrivateShared(" \o Hex(v.shared.data) \o ")"
    ELSE IF type_str \in KnownTypes THEN GdbValueStr(type_str, v.data)
    ELSE GdbBytesStr(v.data)

\* value_str, "None" while unassigned
VariantValueStr(v, type_str) ==
    IF v.is_shared THEN "PrivateShared(" \o Hex(v.shared.data) \o ")"
    ELSE IF EndsWith(type_str, "*") THEN Hex(v.data)
    ELSE
      LET value_str0 == "None"
          found == type_str \in KnownTypes
          value_str1 == IF ~found THEN GdbBytesStr(v.data) ELSE value_str0
      IN  IF found THEN GdbValueStr(type_str, v.data) ELSE value_str1

QVariantPrinter_to_string(v) ==
    IF v.is_null THEN Str("QVariant(empty)")
    ELSE LET type_str == VariantTypeStr(v)
         IN  Str("QVariant(type = \"" \o type_str \o "\", value = "
                 \o VariantValueStr(v, type_str) \o ")")

----------------------------------------------------------------------------
(* QUrlPrinter *)

\* an authority that is written whether or not there is a host
UrlAuthority_hostNotNeeded(username, host, port) ==
    (IF Len(username) > 0 THEN username \o "@" ELSE "")
    \o host
    \o (IF port # -1 THEN ":" \o IntStr(port) ELSE "")

UrlAuthority(username, host, port) ==
    IF Len(host) > 0
    THEN (IF Len(username) > 0 THEN username \o "@" ELSE "")
         \o host
         \o (IF port # -1 THEN ":" \o IntStr(port) ELSE "")
    ELSE ""

\* a QString of an unreadable QUrlPrivate: reading its size raises
UnreadableString == [size |-> 1, ptr |-> "bad", units |-> <<>>]

\* the walk over QUrlPrivate; "raise" when an exception reaches the except
UrlWalk(u) ==
    IF ~u.typesKnown THEN Raised("gdb.error")
    ELSE IF u.d = 0 THEN StrVia("<invalid>", "null")
    ELSE
      LET readable == CanRead(u.mem, u.d)
          field(name) == IF readable THEN QStringPrinter_to_string(u.mem[u.d][name])
                         ELSE QStringPrinter_to_string(UnreadableString)
          scheme == field("scheme")
          username == field("userName")
          host == field("host")
          path == field("path")
          query == field("query")
          fragment == field("fragment")
      IN  IF Len(host) > 0 /\ ~readable THEN Raised("MemoryError")
          ELSE StrVia((IF Len(scheme) > 0 THEN scheme \o "://" ELSE "")
                      \o UrlAuthority(username, host,
                                      IF readable THEN u.mem[u.d].port ELSE -1)
                      \o path
                      \o (IF Len(query) > 0 THEN "?" \o query ELSE "")
                      \o (IF Len(fragment) > 0 THEN "#" \o fragment ELSE ""),
                      "walk")

QUrlPrinter_to_string(u) ==
    LET walk == UrlWalk(u)
    IN  IF walk.kind = "str" THEN walk
        ELSE IF u.native # "" THEN StrVia(u.native, "native")
        ELSE StrVia("<uninitialized>", "uninitialized")

----------------------------------------------------------------------------
(* The inputs of the value printers *)

\* days on each side of a Julian day of interest
DaySpan == 12
\* milliseconds on each side of a time of interest
MsSpan == 6
\* seconds on each side of an offset of interest
OffsetSpan == 6

Around(anchors, width) ==
    UNION {(a - width)..(a + width) : a \in anchors}

\* the first day, the change of calendar, 1 BC to AD 1, the day the Julian
\* formula's dividend turns negative, 1970-01-01, 2000-03-01
JulianDays ==
    Around({0, GregorianStart, 1721424, -32082, 2440588, 2451605}, DaySpan)

Msecs ==
    {-1} \cup (Around({0, 1000, MSECS_PER_MIN, MSECS_PER_HOUR, 3661000,
                       43200000, MsPerDay - 1}, MsSpan)
               \cap 0..(MsPerDay - 1))

Offsets ==
    Around({0, 60, -60, 3600, -3600, 9000, -9000, 50400, 360000, -360000},
           OffsetSpan)

\* the code units of a text of digits, lower-case letters and punctuation
Ord(ch) ==
    CHOOSE c \in 35..122 : Chr(c) = ch

Encode(t) ==
    [k \in 1..Len(t) |-> Ord(SubSeq(t, k, k))]

\* a QString or QByteArray holding t
StringOf(t) ==
    [size |-> Len(t), ptr |-> "ok", units |-> Encode(t)]

\* addresses: a mapped QDateTimePrivate, two mapped QTimeZonePrivate, a
\* mapped QUrlPrivate, and one that is mapped nowhere
DateTimeAddr == 4096
ZoneAddr == 8192
EmptyZoneAddr == 8256
UrlAddr == 12288
DanglingAddr == 16384

ZoneMem ==
    (ZoneAddr :> [m_id |-> StringOf("europe/berlin")])
    @@ (EmptyZoneAddr :> [m_id |-> StringOf("")])

\* QTimeZone::Data words: short in each mode, null, named, empty, dangling
ZoneWords ==
    {ShortZone(mode, o) : mode \in 1..3, o \in {0, -9000, 3600}}
    \cup {0, ZoneAddr, EmptyZoneAddr, DanglingAddr}

\* status: the spec in bits 4-5, over ValidDate | ValidTime | ValidDateTime
StatusOf(spec, short) ==
    spec * 16 + 14 + short

\* 1970-01-01 00:00:00.000, the millisecond before, 2000-02-29,
\* 2023-11-14 22:13:20.123, and the first millisecond of the year 10000
EpochMsecs ==
    {<<0, 0>>, <<-1, MsPerDay - 1>>, <<11016, 0>>, <<19675, 80000123>>,
     <<MaxTimestampDay + 1, 0>>}

DateTimeRequests ==
    {[kind |-> "QDateTime", data |-> ShortDateTime(StatusOf(sp, 1), ms),
      mem |-> ZoneMem] : sp \in 0..3, ms \in EpochMsecs}
    \cup {[kind |-> "QDateTime", data |-> LongDateTime(a), mem |-> ZoneMem] :
            a \in {0, DanglingAddr}}
    \cup {[kind |-> "QDateTime", data |-> LongDateTime(DateTimeAddr),
           mem |-> ZoneMem @@ (DateTimeAddr :>
                      [m_status |-> StatusOf(sp, 0), m_msecs |-> ms,
                       m_offsetFromUtc |-> o, m_timeZone |-> z])] :
            sp \in 0..3, ms \in {<<0, 0>>, <<19675, 80000123>>}, o \in {0, -9000},
            z \in ZoneWords}

\* a null char pointer
NullName == [size |-> 0, ptr |-> "null", units |-> <<>>]

VariantNames == {"int", "bool", "int*", "qstring", ""}

VariantRequests ==
    {[kind |-> "QVariant", is_null |-> n, is_shared |-> sh,
      iface |-> [readable |-> TRUE, name |-> StringOf(nm)],
      data |-> w, shared |-> [data |-> 2 * w]] :
        n \in BOOLEAN, sh \in BOOLEAN, nm \in VariantNames, w \in {0, 42, 4660}}
    \cup {[kind |-> "QVariant", is_null |-> n, is_shared |-> sh,
           iface |-> i, data |-> 42, shared |-> [data |-> 84]] :
        n \in BOOLEAN, sh \in BOOLEAN,
        i \in {[readable |-> FALSE, name |-> NullName],
               [readable |-> TRUE, name |-> NullName],
               [readable |-> TRUE,
                name |-> [size |-> 3, ptr |-> "bad", units |-> <<>>]]}}

UrlBlocks ==
    {[port |-> port, scheme |-> StringOf(sc), userName |-> StringOf(us),
      password |-> StringOf(""), host |-> StringOf(ho), path |-> StringOf(pa),
      query |-> StringOf(qu), fragment |-> StringOf(fr)] :
        port \in {-1, 0, 8080}, sc \in {"", "https"}, us \in {"", "bob"},
        ho \in {"", "example.com"}, pa \in {"", "/a"}, qu \in {"", "q=1"},
        fr \in {"", "top"}}

\* a QString whose characters cannot be read
BadString(n) ==
    [size |-> n, ptr |-> "bad", units |-> <<>>]

UrlFields ==
    {"scheme", "userName", "password", "host", "path", "query", "fragment"}

\* https://bob@example.com:8080/a?q=1#top with one string unreadable
BrokenUrlBlocks ==
    {[[port |-> 8080, scheme |-> StringOf("https"),
       userName |-> StringOf("bob"), password |-> StringOf(""),
       host |-> StringOf("example.com"), path |-> StringOf("/a"),
       query |-> StringOf("q=1"), fragment |-> StringOf("top")]
      EXCEPT ![f] = BadString(3)] : f \in UrlFields \ {"password"}}

UrlRequests ==
    {[kind |-> "QUrl", d |-> UrlAddr, mem |-> (UrlAddr :> b),
      typesKnown |-> TRUE, native |-> ""] : b \in UrlBlocks}
    \cup {[kind |-> "QUrl", d |-> UrlAddr, mem |-> (UrlAddr :> b),
           typesKnown |-> TRUE, native |-> nat] :
            b \in BrokenUrlBlocks, nat \in {"", "https://native"}}
    \cup {[kind |-> "QUrl", d |-> d, mem |-> <<>>, typesKnown |-> tk,
           native |-> nat] :
            d \in {0, DanglingAddr}, tk \in BOOLEAN, nat \in {"", "https://native"}}

Requests ==
    {[kind |-> "QDate", jd |-> jd] : jd \in JulianDays}
    \cup {[kind |-> "QTime", mds |-> ms] : ms \in Msecs}
    \cup {[kind |-> "timeZoneId", spec |-> sp, offset |-> o] :
            sp \in {OffsetFromUTC}, o \in Offsets}
    \cup {[kind |-> "timeZoneId", spec |-> sp, offset |-> o] :
            sp \in 0..5, o \in {0, -9000}}
    \cup {[kind |-> "QTimeZone", d |-> z, mem |-> ZoneMem] : z \in ZoneWords}
    \cup DateTimeRequests
    \cup VariantRequests
    \cup UrlRequests

----------------------------------------------------------------------------
(* The host's calls on a value printer *)

InitValue ==
    /\ val = NullTable("QHash")
    /\ printer = [cls |-> "none", via |-> "none"]
    /\ it = NoIterator
    /\ out = <<>>
    /\ phase = "idle"
    /\ it2 = NoIterator
    /\ out2 = <<>>
    /\ phase2 = "idle"
    /\ req \in Requests
    /\ res = NoResult

Asked(kind) ==
    req.kind = kind /\ res = NoResult

PrintDate ==
    /\ Asked("QDate")
    /\ res' = QDatePrinter_to_string(req.jd)
    /\ UNCHANGED <<hashVars, req>>

PrintTime ==
    /\ Asked("QTime")
    /\ res' = QTimePrinter_to_string(req.mds)
    /\ UNCHANGED <<hashVars, req>>

CallTimeZoneId ==
    /\ Asked("timeZoneId")
    /\ res' = Str(timeZoneId(req.spec, req.offset))
    /\ UNCHANGED <<hashVars, req>>

PrintTimeZone ==
    /\ Asked("QTimeZone")
    /\ res' = QTimeZonePrinter_to_string(req.d, req.mem)
    /\ UNCHANGED <<hashVars, req>>

PrintDateTime ==
    /\ Asked("QDateTime")
    /\ res' = QDateTimePrinter_to_string(req.data, req.mem)
    /\ UNCHANGED <<hashVars, req>>

PrintVariant ==
    /\ Asked("QVariant")
    /\ res' = QVariantPrinter_to_string(req)
    /\ UNCHANGED <<hashVars, req>>

PrintUrl ==
    /\ Asked("QUrl")
    /\ res' = QUrlPrinter_to_string(req)
    /\ UNCHANGED <<hashVars, req>>

NextValue ==
    \/ PrintDate
    \/ PrintTime
    \/ CallTimeZoneId
    \/ PrintTimeZone
    \/ PrintDateTime
    \/ PrintVariant
    \/ PrintUrl

SpecValue == InitValue /\ [][NextValue]_vars

----------------------------------------------------------------------------
(* Reading a printed date, time or offset back *)

DigitValue(c) ==
    CHOOSE i \in 0..9 : Digits[i + 1] = c

IsDigits(t) ==
    \A k \in 1..Len(t) : \E i \in 0..9 : Digits[i + 1] = SubSeq(t, k, k)

RECURSIVE ParseNat(_)
ParseNat(t) ==
    IF Len(t) = 0 THEN 0
    ELSE 10 * ParseNat(SubSeq(t, 1, Len(t) - 1))
         + DigitValue(SubSeq(t, Len(t), Len(t)))

\* <<y, m, d>> of "[-]Y..Y-MM-DD"
ParseDate(t) ==
    LET neg == SubSeq(t, 1, 1) = "-"
        body == IF neg THEN SubSeq(t, 2, Len(t)) ELSE t
        n == Len(body)
        y == ParseNat(SubSeq(body, 1, n - 6))
    IN  <<IF neg THEN -y ELSE y,
          ParseNat(SubSeq(body, n - 4, n - 3)),
          ParseNat(SubSeq(body, n - 1, n))>>

\* the civil calendar: Julian up to 1582-10-04, Gregorian from 1582-10-15,
\* 1 BC (year -1) followed by AD 1
IsLeap(ymd) ==
    LET ay == IF ymd[1] < 0 THEN ymd[1] + 1 ELSE ymd[1]
        gregorian == \/ ymd[1] > 1582
                     \/ ymd[1] = 1582 /\ ymd[2] > 10
                     \/ ymd[1] = 1582 /\ ymd[2] = 10 /\ ymd[3] >= 15
    IN  IF gregorian THEN ay % 4 = 0 /\ (ay % 100 # 0 \/ ay % 400 = 0)
        ELSE ay % 4 = 0

DaysInMonth(ymd) ==
    IF ymd[2] = 2 THEN (IF IsLeap(ymd) THEN 29 ELSE 28)
    ELSE IF ymd[2] \in {4, 6, 9, 11} THEN 30 ELSE 31

NextCivil(ymd) ==
    IF ymd = <<1582, 10, 4>> THEN <<1582, 10, 15>>
    ELSE IF ymd[3] < DaysInMonth(ymd) THEN <<ymd[1], ymd[2], ymd[3] + 1>>
    ELSE IF ymd[2] < 12 THEN <<ymd[1], ymd[2] + 1, 1>>
    ELSE <<IF ymd[1] = -1 THEN 1 ELSE ymd[1] + 1, 1, 1>>

\* <<HH, MM, SS, mmm>> of "HH:MM:SS.mmm"
ParseTime(t) ==
    <<ParseNat(SubSeq(t, 1, 2)), ParseNat(SubSeq(t, 4, 5)),
      ParseNat(SubSeq(t, 7, 8)), ParseNat(SubSeq(t, 10, 12))>>

IsTimeText(t) ==
    /\ Len(t) = 12
    /\ SubSeq(t, 3, 3) = ":" /\ SubSeq(t, 6, 6) = ":" /\ SubSeq(t, 9, 9) = "."
    /\ IsDigits(SubSeq(t, 1, 2)) /\ IsDigits(SubSeq(t, 4, 5))
    /\ IsDigits(SubSeq(t, 7, 8)) /\ IsDigits(SubSeq(t, 10, 12))

\* "UTC", a sign, at least two digits of hours with no padding beyond two,
\* ":", two digits of minutes
IsOffsetText(t) ==
    /\ Len(t) >= 9
    /\ SubSeq(t, 1, 3) = "UTC"
    /\ SubSeq(t, 4, 4) \in {"+", "-"}
    /\ IsDigits(SubSeq(t, 5, Len(t) - 3))
    /\ Len(t) > 9 => SubSeq(t, 5, 5) # "0"
    /\ SubSeq(t, Len(t) - 2, Len(t) - 2) = ":"
    /\ IsDigits(SubSeq(t, Len(t) - 1, Len(t)))

OffsetHours(t) ==
    ParseNat(SubSeq(t, 5, Len(t) - 3))

OffsetMinutes(t) ==
    ParseNat(SubSeq(t, Len(t) - 1, Len(t)))

----------------------------------------------------------------------------
(* C6..C8: QDate, QTime, timeZoneId *)

DateAnswered ==
    req.kind = "QDate" /\ res # NoResult

\* C6 as stated: Julian day 0 prints exactly "invalid"; 2299161 prints
\* "1582-10-15" on the Gregorian branch and 2299160 prints "1582-10-04" on
\* the Julian branch.
C6_AsStated ==
    DateAnswered =>
        /\ req.jd = 0 => res.text = "invalid"
        /\ req.jd = GregorianStart =>
              res.text = "1582-10-15" /\ res.path = "gregorian"
        /\ req.jd = GregorianStart - 1 =>
              res.text = "1582-10-04" /\ res.path = "julian"

\* C6 amended: Julian day 0 prints exactly "invalid QDate"; every other day
\* takes the Gregorian branch iff it is >= 2299161; 2299161 prints
\* "1582-10-15" and 2299160 prints "1582-10-04"; each day from -32082 on
\* prints a date whose successor in the civil calendar is what the next day
\* prints; and division truncates toward zero (day -32083, whose dividend is
\* negative, prints "-4801-03-00").
C6_DateRendering ==
    DateAnswered =>
        /\ res.kind = "str"
        /\ req.jd = 0 <=> res.path = "invalid"
        /\ req.jd = 0 => res.text = "invalid QDate"
        /\ req.jd # 0 => (res.path = "gregorian" <=> req.jd >= GregorianStart)
        /\ req.jd # 0 => (res.path = "julian" <=> req.jd < GregorianStart)
        /\ req.jd = GregorianStart => res.text = "1582-10-15"
        /\ req.jd = GregorianStart - 1 => res.text = "1582-10-04"
        /\ req.jd = -32083 => res.text = "-4801-03-00"
        /\ (req.jd >= -32082 /\ req.jd \notin {-1, 0}) =>
              QDatePrinter_to_string(req.jd + 1).text
                  = FormatYMD(NextCivil(ParseDate(res.text)))

\* the last Julian day was printed, on the Julian branch
C6_Witness ==
    /\ DateAnswered
    /\ req.jd = GregorianStart - 1
    /\ res.path = "julian"
    /\ res.text = "1582-10-04"

TimeAnswered ==
    req.kind = "QTime" /\ res # NoResult

\* C7 as stated: -1 prints exactly "invalid" and 3661000 prints
\* "01:01:01.000".
C7_AsStated ==
    TimeAnswered =>
        /\ req.mds = -1 => res.text = "invalid"
        /\ req.mds = 3661000 => res.text = "01:01:01.000"

\* C7 amended: -1 prints exactly "invalid QTime"; every ms in 0..86399999
\* prints HH:MM:SS.mmm with HH = ms div 3600000, MM = (ms mod 3600000) div
\* 60000, SS = (ms div 1000) mod 60, mmm = ms mod 1000, which add up to ms
\* with MM, SS in 0..59 and mmm in 0..999; 3661000 prints "01:01:01.000".
C7_TimeRendering ==
    TimeAnswered =>
        /\ res.kind = "str"
        /\ req.mds = -1 => res.text = "invalid QTime"
        /\ req.mds = 3661000 => res.text = "01:01:01.000"
        /\ req.mds \in 0..(MsPerDay - 1) =>
              /\ IsTimeText(res.text)
              /\ LET f == ParseTime(res.text)
                 IN  /\ f[1] = req.mds \div 3600000
                     /\ f[2] = (req.mds % 3600000) \div 60000
                     /\ f[3] = (req.mds \div 1000) % 60
                     /\ f[4] = req.mds % 1000
                     /\ f[1] * 3600000 + f[2] * 60000 + f[3] * 1000 + f[4]
                            = req.mds
                     /\ f[2] \in 0..59 /\ f[3] \in 0..59 /\ f[4] \in 0..999

C7_Witness ==
    /\ TimeAnswered
    /\ req.mds = 3661000
    /\ res.text = "01:01:01.000"

FixedOffsetAnswered ==
    req.kind = "timeZoneId" /\ req.spec = OffsetFromUTC /\ res # NoResult

\* C8: for spec 2 and every offset, timeZoneId returns "UTC", then "-" iff
\* the offset is negative and "+" otherwise, then HH = |offset| div 3600 and
\* MM = (|offset| mod 3600) div 60, each padded with zeros to two digits,
\* with ":" between; -9000 gives "UTC-02:30" and 0 gives "UTC+00:00".
C8_FixedOffset ==
    FixedOffsetAnswered =>
        /\ res.kind = "str"
        /\ IsOffsetText(res.text)
        /\ SubSeq(res.text, 4, 4) = "-" <=> req.offset < 0
        /\ OffsetHours(res.text) = Abs(req.offset) \div 3600
        /\ OffsetMinutes(res.text) = (Abs(req.offset) % 3600) \div 60
        /\ OffsetMinutes(res.text) \in 0..59
        /\ Abs(req.offset) - (OffsetHours(res.text) * 3600
                              + OffsetMinutes(res.text) * 60) \in 0..59
        /\ req.offset = -9000 => res.text = "UTC-02:30"
        /\ req.offset = 0 => res.text = "UTC+00:00"

C8_Witness ==
    /\ FixedOffsetAnswered
    /\ req.offset = -9000
    /\ res.text = "UTC-02:30"

----------------------------------------------------------------------------
(* Null backing pointers *)

NullZoneAnswered ==
    req.kind = "QTimeZone" /\ req.d = 0 /\ res # NoResult

NullUrlAnswered ==
    req.kind = "QUrl" /\ req.d = 0 /\ req.typesKnown /\ res # NoResult

\* a date-time cell that is all zero: bit 0 clear, so the long form, at 0
NullDateTimeAnswered ==
    /\ req.kind = "QDateTime"
    /\ req.data.status % 2 = 0
    /\ req.data.d = 0
    /\ res # NoResult

\* C4: a null backing pointer is never dereferenced and the printer returns
\* normally: QTimeZonePrinter returns the invalid token, QUrlPrinter returns
\* an invalid token, and QDateTimePrinter, whose null cell selects the long
\* form, returns a string as well.
C4_NullIsInvalid ==
    /\ NullZoneAnswered => res.kind = "str" /\ res.text = INVALID
    /\ NullUrlAnswered => res.kind = "str" /\ res.text = "<invalid>"
    /\ NullDateTimeAnswered => res.kind = "str"

----------------------------------------------------------------------------
(* The renderings of a QVariant *)

VariantAnswered ==
    req.kind = "QVariant" /\ res # NoResult

\* the name the request holds, '' when it cannot be read
NameOf(v) ==
    IF v.iface.readable /\ \E nm \in VariantNames : v.iface.name = StringOf(nm)
    THEN CHOOSE nm \in VariantNames : v.iface.name = StringOf(nm)
    ELSE ""

VariantFrame(name, token) ==
    "QVariant(type = \"" \o name \o "\", value = " \o token \o ")"

\* C9: QVariantPrinter.to_string picks one rendering by strict precedence:
\* is_null gives the empty token whatever else is set; else is_shared gives
\* the shared-block token whatever the type name; else a name ending in '*'
\* gives the pointer held in the payload; else a name gdb resolves gives the
\* payload read as that type; else (unknown, unreadable or empty name) the raw
\* payload bytes.  Every non-null output is
\* QVariant(type = "<name>", value = <token>) and the token is never None.
C9_VariantPrecedence ==
    VariantAnswered =>
        LET name == NameOf(req)
        IN  /\ res.kind = "str"
            /\ req.is_null => res.text = "QVariant(empty)"
            /\ ~req.is_null /\ req.is_shared =>
                 res.text = VariantFrame(name, "PrivateShared("
                                               \o Hex(req.shared.data) \o ")")
            /\ ~req.is_null /\ ~req.is_shared /\ EndsWith(name, "*") =>
                 res.text = VariantFrame(name, Hex(req.data))
            /\ ~req.is_null /\ ~req.is_shared /\ name = "int" =>
                 res.text = VariantFrame(name, IntStr(req.data))
            /\ ~req.is_null /\ ~req.is_shared /\ name = "bool" =>
                 res.text = VariantFrame(name, IF req.data % 256 = 0
                                               THEN "false" ELSE "true")
            /\ ~req.is_null /\ ~req.is_shared /\ name \in {"", "qstring"} =>
                 res.text = VariantFrame(name, GdbBytesStr(req.data))
            /\ ~req.is_null => res.text # VariantFrame(name, "None")

\* a shared variant of a pointer type prints the shared block, not a pointer
C9_Witness ==
    /\ VariantAnswered
    /\ ~req.is_null
    /\ req.is_shared
    /\ req.iface.readable
    /\ req.iface.name = StringOf("int*")
    /\ req.shared.data = 84
    /\ res.text = "QVariant(type = \"int*\", value = PrivateShared(0x54))"

----------------------------------------------------------------------------
(* The composition of a QUrl *)

UrlTexts == {"", "https", "bob", "example.com", "/a", "q=1", "top"}

\* a readable, non-null QUrlPrivate was printed
UrlAnswered ==
    /\ req.kind = "QUrl"
    /\ req.d # 0
    /\ CanRead(req.mem, req.d)
    /\ \A f \in UrlFields : req.mem[req.d][f].ptr = "ok"
    /\ req.typesKnown
    /\ res # NoResult

\* the text a field of the block holds
FieldText(name) ==
    CHOOSE t \in UrlTexts : req.mem[req.d][name] = StringOf(t)

SchemePart ==
    IF FieldText("scheme") # "" THEN FieldText("scheme") \o "://" ELSE ""

UserInfoPart ==
    IF FieldText("userName") # "" THEN FieldText("userName") \o "@" ELSE ""

PortPart ==
    IF req.mem[req.d].port # -1 THEN ":" \o IntStr(req.mem[req.d].port) ELSE ""

TailPart ==
    FieldText("path")
    \o (IF FieldText("query") # "" THEN "?" \o FieldText("query") ELSE "")
    \o (IF FieldText("fragment") # "" THEN "#" \o FieldText("fragment") ELSE "")

IsFixture ==
    /\ FieldText("scheme") = "https"
    /\ FieldText("host") = "example.com"
    /\ req.mem[req.d].port = -1
    /\ FieldText("path") = "/a"
    /\ FieldText("query") = ""
    /\ FieldText("fragment") = ""
    /\ FieldText("userName") = ""

\* C10 as stated: for every combination of fields the URL is scheme "://",
\* userinfo "@", host, ":" port, path, "?" query, "#" fragment, each optional
\* part present whenever its field is; a user name or a port other than -1
\* always appears in the output.
C10_AsStated ==
    UrlAnswered =>
        /\ res.kind = "str"
        /\ res.text = SchemePart \o UserInfoPart \o FieldText("host")
                      \o PortPart \o TailPart
        /\ IsFixture => res.text = "https://example.com/a"

\* C10: for every combination of fields the URL is scheme "://", then, only
\* when the host is not empty, userinfo "@", host and ":" port (the port left
\* out when it is -1), then path, "?" query and "#" fragment; with an empty
\* host neither the user name nor the port is written.  The fixture gives
\* exactly "https://example.com/a".
C10_Composition ==
    UrlAnswered =>
        /\ res.kind = "str"
        /\ res.path = "walk"
        /\ FieldText("host") # "" =>
             res.text = SchemePart \o UserInfoPart \o FieldText("host")
                        \o PortPart \o TailPart
        /\ FieldText("host") = "" => res.text = SchemePart \o TailPart
        /\ IsFixture => res.text = "https://example.com/a"

C10_Witness ==
    /\ UrlAnswered
    /\ IsFixture
    /\ res.text = "https://example.com/a"

----------------------------------------------------------------------------
(* A QUrl whose walk meets a failure *)

\* a read of the walk fails: the types cannot be looked up, the block is
\* not mapped, or one of the strings it reads cannot be read
WalkFails(u) ==
    \/ ~u.typesKnown
    \/ /\ u.d # 0
       /\ \/ ~CanRead(u.mem, u.d)
          \/ \E f \in UrlFields \ {"password"} : u.mem[u.d][f].ptr # "ok"

UrlPrinted ==
    req.kind = "QUrl" /\ res # NoResult

\* C11: QUrlPrinter.to_string always returns a string; when a read of the
\* walk fails it returns what the host's own formatting gives, and
\* "<uninitialized>" only when that fails too: never a URL assembled by the
\* walk from the fields it could read.
C11_FailedWalkFallsBack ==
    UrlPrinted =>
        /\ res.kind = "str"
        /\ WalkFails(req) =>
             /\ res.path # "walk"
             /\ req.native # "" => res.text = req.native
             /\ req.native = "" => res.text = "<uninitialized>"

----------------------------------------------------------------------------
(* Two child iterators on the same stopped process *)

\* tables of one and of two spans, with buckets 0, 1 and 128 used or not,
\* and chains of one cell or of MaxChain cells
PairTables ==
    UNION {UNION {
        {Table(t, n, live, lens, bad) :
            lens \in [live -> IF t = "QMultiHash" THEN {1, MaxChain} ELSE {1}],
            bad \in {{}} \cup {{sp} : sp \in 0..((n - 1) \div SpanSize)}} :
        live \in SUBSET ({0, 1, SpanSize} \cap 0..(n - 1))} :
        n \in {2, SpanSize + 1}, t \in HashTypes}

InitPair ==
    /\ val \in PairTables
    /\ printer \in PrintersFor(val.type)
    /\ it = NoIterator
    /\ out = <<>>
    /\ phase = "idle"
    /\ it2 = NoIterator
    /\ out2 = <<>>
    /\ phase2 = "idle"
    /\ req = NoRequest
    /\ res = NoResult

\* a second children() that hands out the first iterator's cursor
Children2_sharesCursor ==
    /\ phase2 = "idle"
    /\ it2' = it
    /\ phase2' = IF it2'.err # "" THEN "raised" ELSE "iterating"
    /\ UNCHANGED <<val, printer, it, out, phase, out2, req, res>>

\* the host asks for the children once more: another iterator is constructed
Children2 ==
    /\ phase2 = "idle"
    /\ it2' = children(printer, val)
    /\ phase2' = IF it2'.err # "" THEN "raised" ELSE "iterating"
    /\ UNCHANGED <<val, printer, it, out, phase, out2, req, res>>

\* the host calls __next__ on the second iterator
NextChild2 ==
    /\ phase2 \in {"iterating", "stopped"}
    /\ LET r == next(val, it2)
       IN  /\ it2' = r.s
           /\ phase2' = IF r.stop THEN "stopped"
                        ELSE IF r.s.err # "" THEN "raised" ELSE "iterating"
           /\ out2' = IF r.stop \/ r.s.err # "" THEN out2
                      ELSE Append(out2, r.item)
    /\ UNCHANGED <<val, printer, it, out, phase, req, res>>

NextPair ==
    \/ Children
    \/ NextChild
    \/ Children2
    \/ NextChild2

SpecPair == InitPair /\ [][NextPair]_vars

\* the children an iterator yields until StopIteration or a failure
RECURSIVE DrainAll(_, _)
DrainAll(v, s) ==
    IF s.err # "" THEN <<>>
    ELSE LET r == next(v, s)
         IN  IF r.stop \/ r.s.err # "" THEN <<>>
             ELSE <<r.item>> \o DrainAll(v, r.s)

\* one whole decode of v by printer p, from scratch
Run(p, v) ==
    DrainAll(v, children(p, v))

Prefix(a, b) ==
    Len(a) <= Len(b) /\ \A i \in 1..Len(a) : a[i] = b[i]

\* what each iterator has yielded is the start of the one sequence a decode
\* from scratch yields, and all of it once the iterator has stopped; iterators
\* that were asked as often are in the same state
TwoRunsAgree ==
    /\ Prefix(out, Run(printer, val))
    /\ Prefix(out2, Run(printer, val))
    /\ phase = "stopped" => out = Run(printer, val)
    /\ phase2 = "stopped" => out2 = Run(printer, val)
    /\ Prefix(out, out2) \/ Prefix(out2, out)
    /\ (phase = "iterating" /\ phase2 = "iterating" /\ Len(out) = Len(out2))
          => it = it2

----------------------------------------------------------------------------
(* The chains of a QMultiHash *)

\* the addresses of the Chain cells from a on, following next
RECURSIVE ChainFrom(_, _)
ChainFrom(v, a) ==
    IF a = None THEN <<>>
    ELSE <<a>> \o ChainFrom(v, v.cells[a].next)

\* <<bucket, cell>> for every chained value, bucket by bucket from the i-th
\* used bucket on
RECURSIVE ChainsFrom(_, _)
ChainsFrom(v, i) ==
    IF i > Cardinality(UsedBuckets(v)) THEN <<>>
    ELSE LET b == NthUsed(v, i)
             chain == ChainFrom(v, NodeAt(v, b).value)
         IN  [k \in 1..Len(chain) |-> <<b, chain[k]>>] \o ChainsFrom(v, i + 1)

\* multi mode over a readable table whose live buckets all have a chain
MultiMode ==
    /\ val.type = "QMultiHash"
    /\ Readable(val)
    /\ \A b \in UsedBuckets(val) : NodeAt(val, b).value # None
    /\ it.cls = "QHashIterator"
    /\ it.isMulti

\* after k children the cursor is on the (k+1)-th chained value: its bucket
\* and a chain that is not null; the children are the chained values in order
CursorFollowsChains ==
    MultiMode =>
        LET all == ChainsFrom(val, 1)
        IN  /\ phase # "raised"
            /\ Len(out) <= Len(all)
            /\ \A i \in 1..Len(out) :
                  out[i] = <<Label(i - 1), val.cells[all[i][2]]>>
            /\ it.d_ptr # None =>
                  /\ Len(out) < Len(all)
                  /\ it.chain # None
                  /\ it.bucket = all[Len(out) + 1][1]
                  /\ it.chain = all[Len(out) + 1][2]
            /\ it.d_ptr = None => Len(out) = Len(all)
            /\ phase = "stopped" => Len(out) = val.m_size

\* one __next__ that returns a child: the bucket stays while the chain goes
\* on, and moves, to the next used bucket, only when the chain has ended
ChainStep ==
    (MultiMode /\ it.d_ptr # None /\ it'.count = it.count + 1) =>
        LET nxt == val.cells[it.chain].next
            later == {b \in UsedBuckets(val) : b > it.bucket}
        IN  /\ nxt # None =>
                  /\ it'.d_ptr # None
                  /\ it'.bucket = it.bucket
                  /\ it'.chain = nxt
            /\ (it'.d_ptr # None /\ it'.bucket # it.bucket) =>
                  /\ nxt = None
                  /\ it'.bucket \in later
                  /\ \A b \in later : it'.bucket <= b
            /\ (nxt = None /\ later # {}) =>
                  /\ it'.d_ptr # None
                  /\ it'.bucket # it.bucket
                  /\ it'.chain = NodeAt(val, it'.bucket).value
            /\ (nxt = None /\ later = {}) => it'.d_ptr = None

----------------------------------------------------------------------------
(* Exhaustion of the cursor *)

\* tables of one to three buckets, any of them used, readable or not, with
\* chains of one cell or of MaxChain cells, and single-valued tables of two spans with buckets 0, 127 and 128 used or not
LiveTables ==
    {NullTable(t) : t \in HashTypes}
    \cup UNION {UNION {
           {Table(t, n, live, lens, bad) :
                lens \in [live -> IF t = "QMultiHash" THEN {1, MaxChain} ELSE {1}],
                bad \in {{}, {0}}} :
           live \in {L \in SUBSET (0..(n - 1)) : Cardinality(L) <= MaxLive}} :
           n \in 1..3, t \in HashTypes}
    \cup {Table(t, SpanSize + 1, live, [b \in live |-> 1], {}) :
            live \in SUBSET {0, LocalBucketMask, SpanSize}, t \in {"QHash", "QSet"}}

InitLive ==
    /\ val \in LiveTables
    /\ printer \in PrintersFor(val.type)
    /\ it = NoIterator
    /\ out = <<>>
    /\ phase = "idle"
    /\ it2 = NoIterator
    /\ out2 = <<>>
    /\ phase2 = "idle"
    /\ req = NoRequest
    /\ res = NoResult

\* the host goes on asking for children until the sequence ends or fails
SpecLive == InitLive /\ [][Next]_vars /\ WF_vars(Next)

IsCursor ==
    it.cls \in {"QHashIterator", "QSetIterator"}

Exhausted ==
    IsCursor /\ it.err = "" /\ it.d_ptr = None

\* an exhausted cursor is at bucket 0 with a null root, and __next__ on it
\* raises StopIteration and leaves it as it is, whatever the memory holds:
\* the same over a table that has no spans to read
ExhaustedStops ==
    Exhausted =>
        /\ it.bucket = 0
        /\ next(val, it) = [s |-> it, stop |-> TRUE, item |-> <<>>]
        /\ next(NullTable(val.type), it) = [s |-> it, stop |-> TRUE, item |-> <<>>]
        /\ Readable(val) => Len(out) = Len(Run(printer, val))

\* a call on a live cursor leaves it at a greater bucket or exhausted; a call
\* on an exhausted cursor yields nothing and changes nothing
CursorStep ==
    /\ (IsCursor /\ it.d_ptr # None /\ it'.err = "") =>
          \/ it'.d_ptr = None /\ it'.bucket = 0
          \/ it'.d_ptr # None /\ it'.bucket > it.bucket
          \/ it'.d_ptr # None /\ it'.bucket = it.bucket /\ it.isMulti
             /\ it'.chain # it.chain
    /\ Exhausted => (it' = it /\ out' = out /\ phase' = "stopped")

NonEmptyTable ==
    Readable(val) /\ val.numBuckets >= 1

\* C14: exhaustion is absorbing.  When nextNode has reached numBuckets the
\* root is null, and from then on every __next__, of the hash iterator and of
\* the set iterator around it, raises StopIteration without reading a bucket;
\* no bucket is visited twice; and over every table of one bucket or more,
\* all unused included, the iteration reaches exhaustion in finitely many calls.
C14_ExhaustionAbsorbing ==
    /\ []ExhaustedStops
    /\ [][CursorStep]_vars
    /\ NonEmptyTable ~> (Exhausted /\ phase = "stopped")

\* a table of 129 unused buckets: exhausted on construction, then StopIteration
C14_Witness ==
    /\ NonEmptyTable
    /\ val.numBuckets = SpanSize + 1
    /\ UsedBuckets(val) = {}
    /\ Exhausted
    /\ phase = "stopped"
    /\ out = <<>>

----------------------------------------------------------------------------
(* The zone token of each time spec *)

ZoneIdAnswered ==
    req.kind = "timeZoneId" /\ res # NoResult

\* timeZoneId keeps the four specs and the unknown ones apart
ZoneIdTotal ==
    ZoneIdAnswered =>
        /\ res.kind = "str"
        /\ (res.text = "Local") <=> (req.spec = LocalTime)
        /\ (res.text = "UTC") <=> (req.spec = UTC)
        /\ IsOffsetText(res.text) <=> (req.spec = OffsetFromUTC)
        /\ (res.text = INVALID) <=> (req.spec = TimeZone)
        /\ (req.spec \notin 0..3) <=>
             (res.text = "<error: unhandled time spec " \o IntStr(req.spec) \o ">")

\* a date-time of time spec 3 was printed, from the short or the long form
ShortZoneSpec ==
    /\ req.kind = "QDateTime"
    /\ res # NoResult
    /\ req.data.status % 2 = 1
    /\ extractTimeSpec(req.data.status) = TimeZone

LongZoneSpec ==
    /\ req.kind = "QDateTime"
    /\ res # NoResult
    /\ req.data.status % 2 = 0
    /\ CanRead(req.mem, req.data.d)
    /\ extractTimeSpec(req.mem[req.data.d].m_status) = TimeZone

\* the date-time's zone token is what QTimeZonePrinter gives for zone word z
DefersTo(z) ==
    LET tz == QTimeZonePrinter_to_string(z, req.mem)
    IN  IF tz.kind = "raised" THEN res = tz
        ELSE res.kind = "str" =>
               /\ res.path = "long-zone"
               /\ Len(res.text) > Len(tz.text)
               /\ SubSeq(res.text, Len(res.text) - Len(tz.text), Len(res.text))
                    = " " \o tz.text

\* C15 as stated: timeZoneId is total and keeps the specs apart, and a
\* date-time of spec 3 takes its zone token from the timezone decoder in the
\* short form as in the long form.
C15_AsStated ==
    /\ ZoneIdTotal
    /\ LongZoneSpec => DefersTo(req.mem[req.data.d].m_timeZone)
    /\ (ShortZoneSpec /\ res.kind = "str") => res.path = "long-zone"

\* C15: timeZoneId gives "Local" only for spec 0, "UTC" only for spec 1,
\* "UTC±HH:MM" only for spec 2, the invalid token "<invalid>" only for spec 3,
\* and for every other spec an error token that names it.  A date-time of
\* spec 3 takes its zone token from the timezone decoder in the long form
\* only; the short form, which holds no zone, prints "<invalid>" for it.
C15_ZoneSpecTotal ==
    /\ ZoneIdTotal
    /\ LongZoneSpec => DefersTo(req.mem[req.data.d].m_timeZone)
    /\ (ShortZoneSpec /\ res.kind = "str") =>
          /\ res.path = "short"
          /\ SubSeq(res.text, Len(res.text) - Len(INVALID), Len(res.text))
               = " " \o INVALID

\* a long date-time of spec 3 printed with the name of its zone
C15_Witness ==
    /\ LongZoneSpec
    /\ req.mem[req.data.d].m_timeZone = ZoneAddr
    /\ res.kind = "str"
    /\ res.text = "2023-11-14 22:13:20.123 europe/berlin"

----------------------------------------------------------------------------
(* The cursor of the hash iterator *)

\* the tables of LiveTables' sizes, and with them tables of a QMultiHash in
\* which the chain of a live bucket is empty
CursorTables ==
    UNION {UNION {
        {Table(t, n, live, lens, bad) :
            lens \in [live -> IF t = "QMultiHash" THEN {0, 1, MaxChain} ELSE {1}],
            bad \in {{}} \cup {{sp} : sp \in 0..((n - 1) \div SpanSize)}} :
        live \in {L \in SUBSET ({0, 1, 2, LocalBucketMask, SpanSize} \cap 0..(n - 1)) :
                    Cardinality(L) <= MaxLive}} :
        n \in {1, 2, 3, SpanSize + 1}, t \in HashTypes}

InitCursor ==
    /\ val \in CursorTables
    /\ printer \in PrintersFor(val.type)
    /\ it = NoIterator
    /\ out = <<>>
    /\ phase = "idle"
    /\ it2 = NoIterator
    /\ out2 = <<>>
    /\ phase2 = "idle"
    /\ req = NoRequest
    /\ res = NoResult

SpecCursor == InitCursor /\ [][Next]_vars

LiveCursor ==
    IsCursor /\ it.err = "" /\ it.d_ptr # None

\* the buckets whose slot the next call of nextNode reads: those after the
\* cursor up to the one it stops at, numBuckets itself left out
BucketsRead(v, s) ==
    LET stop == nextStop(v, s)
    IN  IF stop = Unset THEN (s.bucket + 1)..(s.bucket + 1)
        ELSE {b \in (s.bucket + 1)..stop : b # v.numBuckets}

\* C16: over frozen memory with numBuckets >= 1, whenever the cursor is live
\* (root non-null after firstNode or nextNode returned) 0 <= bucket <
\* numBuckets and the slot of the bucket is used; every slot read is of a
\* bucket below numBuckets; so computeCurrentNode never takes its 'Offset
\* points to an unused entry' branch and neither assertion fails.
C16_CursorInvariant ==
    /\ IsCursor => it.err # "AssertionError"
    /\ LiveCursor =>
          /\ val.numBuckets >= 1
          /\ it.bucket \in 0..(val.numBuckets - 1)
          /\ Slot(val, it.bucket \div SpanSize, it.bucket % SpanSize) # UnusedEntry
          /\ it.bucket \in UsedBuckets(val)
          /\ it.currentNode # None
          /\ it.currentNode = computeCurrentNode(val, it)
          /\ \A b \in BucketsRead(val, it) : b < val.numBuckets

\* the cursor rests on bucket 128 of a table of two spans after one child
C16_Witness ==
    /\ LiveCursor
    /\ val.numBuckets = SpanSize + 1
    /\ it.bucket = SpanSize
    /\ Len(out) = 1
    /\ it.currentNode = NodeAddr(1, 0)

====
